---- MODULE Spec2Model ----
(***************************************************************************)
(* Lumina: the agentic tool-calling loop (GeminiService), its rate         *)
(* governor and caches, and the record store (DatabaseService).            *)
(*                                                                         *)
(* The module holds several specifications over one set of variables:      *)
(*   SpecNorm   history normalisation of sendMessage, as a pure function   *)
(*   SpecStore  the record store's operations                              *)
(*   SpecChat   chat retention, on a table an earlier run left behind      *)
(*   Spec       sendMessage with its tool loop, one call at a time         *)
(*   SpecGov    the governor under concurrent sendMessage calls            *)
(*   SpecQuote  the quote cache under concurrent generateDailyQuote calls  *)
(* Variables a specification does not use keep their initial value.        *)
(***************************************************************************)
EXTENDS Integers, Sequences, FiniteSets, TLC

VARIABLES
    \* ---- history normalisation (sendMessage, part_001:315-334)
    conversationHistory,  \* the caller's history argument
    validHistory,         \* the history handed to model.startChat
    normPc,               \* "start" | "chatStarted"
    \* ---- the clock: Date.now(), in milliseconds
    now,
    \* ---- DatabaseService (database.ts)
    db,                   \* "null" | "open": the db field
    initialized,          \* the initialized field
    transactions,         \* rows of table transactions
    schedules,            \* rows of table schedules
    journalEntries,       \* rows of table journal_entries
    chatMessages,         \* rows of table chat_messages
    lastOp,               \* the last store operation and how it ended
    \* ---- GeminiService (part_001)
    ticks,                \* clock ticks taken so far
    lastRequestTime,      \* the lastRequestTime field
    quotaResetTime,       \* the quotaResetTime field (0: no cooldown)
    quoteCache,           \* the quoteCache field
    th,                   \* the threads: where each one stands and its locals
    call,                 \* per caller, the service call in progress
    obs,                  \* what has been observed of the service so far
    \* ---- the process environment and the callers of the services
    apiKey,               \* process.env.EXPO_PUBLIC_GEMINI_API_KEY
    turn,                 \* ChatScreen.sendMessage: the chat turn in progress
    queue,                \* GeminiService: requestQueue, isProcessingQueue, drains
    searchCache           \* GeminiService: the searchCache map, by key

normVars == <<conversationHistory, validHistory, normPc>>
storeVars == <<db, initialized, transactions, schedules, journalEntries, chatMessages, lastOp>>

govVars == <<lastRequestTime, quotaResetTime, quoteCache, th, call, obs>>

vars == <<conversationHistory, validHistory, normPc, now,
          db, initialized, transactions, schedules, journalEntries, chatMessages, lastOp,
          ticks, lastRequestTime, quotaResetTime, quoteCache, th, call, obs,
          apiKey, turn, queue, searchCache>>

appVars == <<apiKey, turn, queue, searchCache>>

\* ------------------------------------------------------------------------
\* History normalisation
\* ------------------------------------------------------------------------

MaxHistoryLen == 5
Roles == {"user", "model"}
Texts == {"a", "b"}
Turn == [role : Roles, text : Texts]

RECURSIVE SeqsUpTo(_, _)
SeqsUpTo(S, n) ==
    IF n = 0 THEN {<<>>}
    ELSE LET shorter == SeqsUpTo(S, n - 1)
         IN  shorter \cup {Append(s, x) : s \in {t \in shorter : Len(t) = n - 1}, x \in S}

\* the bug of slicing off the first turn whatever its role
DropFirstTurn(h) ==
    IF Len(h) > 0 THEN Tail(h) ELSE h

\* validHistory.slice(1) when the first turn is model-authored
DropLeadingModel(h) ==
    IF Len(h) > 0 /\ h[1].role = "model" THEN Tail(h) ELSE h

\* the bug of keeping the first turn whatever its role
KeepTurnAnyFirst(h, index) ==
    IF index = 1 THEN TRUE
    ELSE \/ h[index - 1].role = "user" /\ h[index].role = "model"
         \/ h[index - 1].role = "model" /\ h[index].role = "user"

\* the callback of validHistory.filter: it reads validHistory[index - 1], the
\* array being filtered (the assignment happens after filter returns), so a turn
\* is compared with its predecessor in the unfiltered array
KeepTurn(h, index) ==
    IF index = 1 THEN h[1].role = "user"
    ELSE \/ h[index - 1].role = "user" /\ h[index].role = "model"
         \/ h[index - 1].role = "model" /\ h[index].role = "user"

RECURSIVE FilterFrom(_, _)
FilterFrom(h, index) ==
    IF index > Len(h) THEN <<>>
    ELSE (IF KeepTurn(h, index) THEN <<h[index]>> ELSE <<>>) \o FilterFrom(h, index + 1)

NormalizeHistory(h) ==
    IF Len(h) > 0 THEN FilterFrom(DropLeadingModel(h), 1) ELSE h

NormIdle ==
    /\ conversationHistory = <<>>
    /\ validHistory = <<>>
    /\ normPc = "start"

\* ------------------------------------------------------------------------
\* The clock
\* ------------------------------------------------------------------------

\* Date.now() at process start: any instant later than minRequestInterval
\* after the epoch behaves the same
StartTime == 10000
TickMs == 1000
MaxTicks == 1

Tick ==
    /\ ticks < MaxTicks
    /\ ticks' = ticks + 1
    /\ now' = now + TickMs

\* ------------------------------------------------------------------------
\* GeminiService: the governor, sendMessage and generateDailyQuote
\* ------------------------------------------------------------------------
\* A caller runs one service method at a time. Its async function is thread
\* <<p, 0>>; the handlers of a tool-call round (the callbacks of Promise.all)
\* are the threads <<p, 1>>, <<p, 2>>, ... Each thread stops at the awaits of
\* the code: a timer of waitForRateLimit, a remote request, a store statement.

minRequestInterval == 3000
quoteCacheDuration == 3600000
\* Date.now() + 60000 in the catch of sendMessage
quotaCooldown == 60000

NumCallers == 2
MaxCalls == 4
MaxChatCalls == 2
MaxQuoteCalls == 3
MaxRounds == 1
MaxBatch == 2
\* generateDailyQuote and performWebSearch calls of a run
MaxCacheCalls == 3
\* queueRequest calls of a run
MaxTasks == 3

Callers == 1..NumCallers
Threads == Callers \X (0..MaxBatch)
Main(p) == <<p, 0>>

NoArgs == [none |-> TRUE]
NoTool == [name |-> "none", args |-> NoArgs]
NoResult == [status |-> "none", text |-> ""]
IdleThread ==
    [pc |-> "idle", job |-> "none", nowL |-> 0, wakeAt |-> 0,
     tool |-> NoTool, id |-> 0, result |-> NoResult]

\* what the remote model may ask for in one response
ToolBatches ==
    { <<[name |-> "logTransaction",
         args |-> [amount |-> 250, type |-> "expense", category |-> "Food", description |-> "lunch"]]>>,
      <<[name |-> "getDailyQuote", args |-> NoArgs],
        [name |-> "logTransaction",
         args |-> [amount |-> 5000, type |-> "income", category |-> "Salary", description |-> ""]]>>,
      <<[name |-> "scheduleMeeting",
         args |-> [title |-> "review", date |-> "2025-01-15", time |-> "10:00", description |-> ""]],
        [name |-> "addJournalEntry", args |-> [content |-> "a quiet day", mood |-> "calm"]]>>,
      <<[name |-> "scheduleMeeting",
         args |-> [title |-> "review", date |-> "someday", time |-> "10:00", description |-> ""]]>>,
      <<[name |-> "bookFlight", args |-> NoArgs]>> }

\* error messages of the transport, by the substrings the code looks for and
\* by their length
ApiErrors ==
    { [name |-> "[429 Too Many Requests] quota exceeded", markers |-> {"429", "quota"}, length |-> 40],
      [name |-> "RESOURCE_EXHAUSTED", markers |-> {"RESOURCE_EXHAUSTED"}, length |-> 18],
      [name |-> "[403] PERMISSION_DENIED", markers |-> {"PERMISSION_DENIED"}, length |-> 23],
      [name |-> "[401] UNAUTHENTICATED", markers |-> {"UNAUTHENTICATED"}, length |-> 21],
      [name |-> "[403] PERMISSION_DENIED on the quota project", markers |-> {"PERMISSION_DENIED", "quota"}, length |-> 120],
      [name |-> "[400 Bad Request] API key not valid", markers |-> {}, length |-> 300],
      [name |-> "fetch failed", markers |-> {}, length |-> 12],
      [name |-> "[500] internal error, with a long trace", markers |-> {}, length |-> 250] }
QuotaErrors == {e \in ApiErrors : e.markers \cap {"PERMISSION_DENIED", "UNAUTHENTICATED"} = {}
                                    /\ e.markers # {}}
NoError == [name |-> "", markers |-> {}, length |-> 0]

QuoteTexts == {"quote A", "quote B"}
NoCache == [text |-> "", timestamp |-> 0, set |-> FALSE]

NoOutcome == [kind |-> "none", text |-> "", chars |-> 0, actions |-> <<>>, threw |-> FALSE, error |-> NoError]
NoCall ==
    [op |-> "none", seq |-> 0, round |-> 0, batch |-> 0,
     asked |-> <<>>, actions |-> <<>>, wrote |-> {}, usedRemote |-> FALSE,
     prior |-> {}, stale |-> FALSE, outcome |-> NoOutcome,
     calls |-> <<>>, completed |-> <<>>, sent |-> <<>>]

NoSignal == [deadline |-> 0, next |-> <<0, 0>>, doneAt |-> 0]
NoObs ==
    [started |-> 0, lastIssueAt |-> 0, closest |-> minRequestInterval,
     signal |-> NoSignal, quoteReturns |-> {}, searchReturns |-> {}]

\* what callers search for
SearchQueries == {"Gold price", "gold price", "weather"}
\* query.toLowerCase()
ToLowerCase(q) == IF q = "Gold price" THEN "gold price" ELSE q
SearchKeys == {ToLowerCase(q) : q \in SearchQueries}
NoEntry == [set |-> FALSE, text |-> "", timestamp |-> 0]
\* new Map()
EmptySearchCache == [k \in SearchKeys |-> NoEntry]

\* the key the app was built with, or "" when the variable is not set
ApiKeys == {"AIza-key", ""}
\* new GoogleGenerativeAI(apiKey || 'placeholder')
ClientKey == IF apiKey = "" THEN "placeholder" ELSE apiKey
\* the remote model serves a request only under a key it knows
RemoteAccepts == ClientKey # "placeholder"
\* what a request can fail with: anything under a real key; under the
\* placeholder the remote's rejection of the key, or no answer at all
PossibleErrors ==
    IF RemoteAccepts THEN ApiErrors
    ELSE {e \in ApiErrors : e.name \in {"[400 Bad Request] API key not valid", "fetch failed"}}

\* ChatScreen between two messages: loading is false, nothing sent yet
NoTurn == [pc |-> "idle", userId |-> 0, aiId |-> 0, ended |-> "none", sent |-> 0]
\* a queued task is named by its place in the order of the queueRequest calls
Tasks == 1..MaxTasks
\* an invocation of processQueue that returned, or was never made
NoLoop == [pc |-> "off", task |-> 0, nowL |-> 0, wakeAt |-> 0]
\* requestQueue = [], isProcessingQueue = false; nothing enqueued, started or
\* settled; loop[k] is the processQueue invocation of the k-th queueRequest
IdleQueue ==
    [requestQueue |-> <<>>, isProcessingQueue |-> FALSE,
     enqueued |-> 0, started |-> <<>>, running |-> {},
     settled |-> [k \in Tasks |-> "pending"],
     loop |-> [k \in Tasks |-> NoLoop]]

AppIdle ==
    /\ apiKey = "AIza-key"
    /\ searchCache = EmptySearchCache
    /\ turn = NoTurn
    /\ queue = IdleQueue

GovIdle ==
    /\ ticks = 0
    /\ lastRequestTime = 0
    /\ quotaResetTime = 0
    /\ quoteCache = NoCache
    /\ th = [t \in Threads |-> IdleThread]
    /\ call = [p \in Callers |-> NoCall]
    /\ obs = NoObs


\* ------------------------------------------------------------------------
\* DatabaseService: the record store
\* ------------------------------------------------------------------------
\* Ids are Date.now().toString(): the decimal string of an integer, which is
\* injective, so an id is modelled by the integer. Dates are stored as
\* toISOString() text, whose text order is the order of the instants for the
\* years 0000-9999, so a stored date is modelled by its millisecond value.

\* the model's cap on the rows of the three record tables together
MaxRows == 3
IoOutcomes == {"ok", "fail"}

TransactionInputs ==
    { [amount |-> 250, type |-> "expense", category |-> "Food", description |-> "lunch"],
      [amount |-> 5000, type |-> "income", category |-> "Salary", description |-> ""] }
ScheduleInputs ==
    { [title |-> "standup", description |-> "", time |-> "09:00", reminder |-> 15] }
JournalInputs ==
    { [content |-> "a quiet day", mood |-> "calm"] }

NoOp == [op |-> "none", id |-> 0, threw |-> FALSE, error |-> "", rows |-> {}]
Threw(op, id, msg) == [op |-> op, id |-> id, threw |-> TRUE, error |-> msg, rows |-> {}]
Returned(op, id) == [op |-> op, id |-> id, threw |-> FALSE, error |-> "", rows |-> {}]
\* a read resolved with an array of rows
ReturnedRows(op, rows) == [op |-> op, id |-> 0, threw |-> FALSE, error |-> "", rows |-> rows]

RecordCount ==
    Cardinality(transactions) + Cardinality(schedules) + Cardinality(journalEntries)

RowIds(table) == {r.id : r \in table}

\* INSERT INTO ... : fails on an I/O fault and on a PRIMARY KEY clash
InsertFails(table, id, io) == io = "fail" \/ id \in RowIds(table)

\* the bug of a comparison in place of the equality: WHERE id <= ?
DeleteRowsUpTo(table, id) == {r \in table : r.id > id}

\* DELETE FROM table WHERE id = ?
DeleteRows(table, id) == {r \in table : r.id # id}

TransactionRow(id, t, date) ==
    [id |-> id, amount |-> t.amount, type |-> t.type, category |-> t.category,
     description |-> t.description, date |-> date]
ScheduleRow(id, s, date) ==
    [id |-> id, title |-> s.title, description |-> s.description, date |-> date,
     time |-> s.time, reminder |-> s.reminder]
JournalRow(id, e, date) ==
    [id |-> id, content |-> e.content, mood |-> e.mood, date |-> date]

\* toISOString() of an Invalid Date throws a RangeError
InvalidDate == -1

\* init(): openDatabaseAsync, then execAsync (CREATE TABLE IF NOT EXISTS ...)
InitOpen(io) ==
    /\ ~initialized
    /\ db = "null"
    /\ IF io = "ok"
       THEN db' = "open" /\ lastOp' = lastOp
       ELSE db' = db /\ lastOp' = Threw("init", 0, "open failed")
    /\ UNCHANGED <<initialized, transactions, schedules, journalEntries, chatMessages>>

InitCreateTables(io) ==
    /\ ~initialized
    /\ db = "open"
    /\ IF io = "ok"
       THEN initialized' = TRUE /\ lastOp' = Returned("init", 0)
       ELSE initialized' = initialized /\ lastOp' = Threw("init", 0, "exec failed")
    /\ UNCHANGED <<db, transactions, schedules, journalEntries, chatMessages>>

\* addTransaction: the id and the row are taken when the method is called, the
\* INSERT completes at the await
AddTransactionAt(id, t, date, io) ==
    /\ IF db = "null"
       THEN /\ lastOp' = Threw("addTransaction", 0, "Database not initialized")
            /\ UNCHANGED transactions
       ELSE IF date = InvalidDate
       THEN /\ lastOp' = Threw("addTransaction", id, "Invalid time value")
            /\ UNCHANGED transactions
       ELSE IF InsertFails(transactions, id, io)
       THEN /\ lastOp' = Threw("addTransaction", id, "insert failed")
            /\ UNCHANGED transactions
       ELSE /\ transactions' = transactions \cup {TransactionRow(id, t, date)}
            /\ lastOp' = Returned("addTransaction", id)
    /\ UNCHANGED <<db, initialized, schedules, journalEntries, chatMessages>>

\* addTransaction(transaction), called and completed with no other step between
AddTransaction(t, io) ==
    /\ RecordCount < MaxRows
    /\ AddTransactionAt(now, t, now, io)

\* deleteTransaction(id)
DeleteTransaction(id, io) ==
    /\ IF db = "null"
       THEN /\ lastOp' = Threw("deleteTransaction", id, "Database not initialized")
            /\ UNCHANGED transactions
       ELSE IF io = "fail"
       THEN /\ lastOp' = Threw("deleteTransaction", id, "delete failed")
            /\ UNCHANGED transactions
       ELSE /\ transactions' = DeleteRows(transactions, id)
            /\ lastOp' = Returned("deleteTransaction", id)
    /\ UNCHANGED <<db, initialized, schedules, journalEntries, chatMessages>>

\* addSchedule: the id and the row are taken when the method is called, the
\* INSERT completes at the await
AddScheduleAt(id, s, date, io) ==
    /\ IF db = "null"
       THEN /\ lastOp' = Threw("addSchedule", 0, "Database not initialized")
            /\ UNCHANGED schedules
       ELSE IF date = InvalidDate
       THEN /\ lastOp' = Threw("addSchedule", id, "Invalid time value")
            /\ UNCHANGED schedules
       ELSE IF InsertFails(schedules, id, io)
       THEN /\ lastOp' = Threw("addSchedule", id, "insert failed")
            /\ UNCHANGED schedules
       ELSE /\ schedules' = schedules \cup {ScheduleRow(id, s, date)}
            /\ lastOp' = Returned("addSchedule", id)
    /\ UNCHANGED <<db, initialized, transactions, journalEntries, chatMessages>>

\* addSchedule(schedule), called and completed with no other step between
AddSchedule(s, date, io) ==
    /\ RecordCount < MaxRows
    /\ AddScheduleAt(now, s, date, io)

\* deleteSchedule(id)
DeleteSchedule(id, io) ==
    /\ IF db = "null"
       THEN /\ lastOp' = Threw("deleteSchedule", id, "Database not initialized")
            /\ UNCHANGED schedules
       ELSE IF io = "fail"
       THEN /\ lastOp' = Threw("deleteSchedule", id, "delete failed")
            /\ UNCHANGED schedules
       ELSE /\ schedules' = DeleteRows(schedules, id)
            /\ lastOp' = Returned("deleteSchedule", id)
    /\ UNCHANGED <<db, initialized, transactions, journalEntries, chatMessages>>

\* addJournalEntry: the id and the row are taken when the method is called, the
\* INSERT completes at the await
AddJournalEntryAt(id, e, date, io) ==
    /\ IF db = "null"
       THEN /\ lastOp' = Threw("addJournalEntry", 0, "Database not initialized")
            /\ UNCHANGED journalEntries
       ELSE IF date = InvalidDate
       THEN /\ lastOp' = Threw("addJournalEntry", id, "Invalid time value")
            /\ UNCHANGED journalEntries
       ELSE IF InsertFails(journalEntries, id, io)
       THEN /\ lastOp' = Threw("addJournalEntry", id, "insert failed")
            /\ UNCHANGED journalEntries
       ELSE /\ journalEntries' = journalEntries \cup {JournalRow(id, e, date)}
            /\ lastOp' = Returned("addJournalEntry", id)
    /\ UNCHANGED <<db, initialized, transactions, schedules, chatMessages>>

\* addJournalEntry(entry), called and completed with no other step between
AddJournalEntry(e, io) ==
    /\ RecordCount < MaxRows
    /\ AddJournalEntryAt(now, e, now, io)

\* deleteJournalEntry(id)
DeleteJournalEntry(id, io) ==
    /\ IF db = "null"
       THEN /\ lastOp' = Threw("deleteJournalEntry", id, "Database not initialized")
            /\ UNCHANGED journalEntries
       ELSE IF io = "fail"
       THEN /\ lastOp' = Threw("deleteJournalEntry", id, "delete failed")
            /\ UNCHANGED journalEntries
       ELSE /\ journalEntries' = DeleteRows(journalEntries, id)
            /\ lastOp' = Returned("deleteJournalEntry", id)
    /\ UNCHANGED <<db, initialized, transactions, schedules, chatMessages>>

\* ---- reads

\* getTransactions, getSchedules, getJournalEntries, getChatMessages: throw
\* when db is null; the catch around getAllAsync logs and returns []
GetRows(op, table, io) ==
    /\ lastOp' = IF db = "null" THEN Threw(op, 0, "Database not initialized")
                 ELSE IF io = "fail" THEN ReturnedRows(op, {})
                 ELSE ReturnedRows(op, table)
    /\ UNCHANGED <<db, initialized, transactions, schedules, journalEntries, chatMessages>>

GetTransactions(io) == GetRows("getTransactions", transactions, io)
GetSchedules(io) == GetRows("getSchedules", schedules, io)
GetJournalEntries(io) == GetRows("getJournalEntries", journalEntries, io)
\* SELECT ... ORDER BY timestamp DESC LIMIT 100: the table never holds more
GetChatMessages(io) == GetRows("getChatMessages", chatMessages, io)

\* ---- chat messages

\* LIMIT 100 of the retention DELETE
ChatLimit == 100

ChatRow(m) == [id |-> m.id, isUser |-> m.isUser, timestamp |-> m.timestamp]

OldestRows(rows) == {m \in rows : \A o \in rows : m.timestamp <= o.timestamp}

\* the bug of ordering ASC: the newest rows are the ones deleted
RECURSIVE KeepOldest(_)
KeepOldest(rows) ==
    IF Cardinality(rows) <= ChatLimit THEN {rows}
    ELSE UNION {KeepOldest(rows \ {e}) :
                  e \in {m \in rows : \A o \in rows : m.timestamp >= o.timestamp}}

\* DELETE FROM chat_messages WHERE id NOT IN
\*   (SELECT id FROM chat_messages ORDER BY timestamp DESC LIMIT 100):
\* every table the statement can leave; rows of equal timestamp come in either
\* order, so which of them falls outside the limit is not determined
RECURSIVE KeepMostRecent(_)
KeepMostRecent(rows) ==
    IF Cardinality(rows) <= ChatLimit THEN {rows}
    ELSE UNION {KeepMostRecent(rows \ {e}) : e \in OldestRows(rows)}

\* addChatMessage(message): the INSERT, then the retention DELETE, each its own
\* statement (no transaction around them)
AddChatMessage(m, ioInsert, ioDelete) ==
    /\ IF db = "null"
       THEN /\ lastOp' = Threw("addChatMessage", m.id, "Database not initialized")
            /\ UNCHANGED chatMessages
       ELSE IF InsertFails(chatMessages, m.id, ioInsert)
       THEN /\ lastOp' = Threw("addChatMessage", m.id, "insert failed")
            /\ UNCHANGED chatMessages
       ELSE IF ioDelete = "fail"
       THEN /\ chatMessages' = chatMessages \cup {ChatRow(m)}
            /\ lastOp' = Threw("addChatMessage", m.id, "delete failed")
       ELSE /\ chatMessages' \in KeepMostRecent(chatMessages \cup {ChatRow(m)})
            /\ lastOp' = Returned("addChatMessage", m.id)
    /\ UNCHANGED <<db, initialized, transactions, schedules, journalEntries>>

\* the chat_messages table as an earlier run of the app left it in lumina.db:
\* n messages, alternately from the user and the assistant, the assistant's
\* answer and the user's next message falling in the same millisecond
StoredChat(n) ==
    {[id |-> i, isUser |-> (i % 2 = 1), timestamp |-> (i + 1) \div 2] : i \in 1..n}

StoredChatSizes == {0, ChatLimit - 1, ChatLimit}

\* messages a caller adds: a fresh id or the id of a stored row; a timestamp
\* older than every stored row, equal to the oldest, or newer than all of them
NewChatIds == {ChatLimit + 1, ChatLimit + 2, 1}
NewChatTimestamps == {0, 1, ChatLimit}
ChatInputs == [id : NewChatIds, isUser : {TRUE}, timestamp : NewChatTimestamps]

ChatInit ==
    /\ db = "null"
    /\ initialized = FALSE
    /\ transactions = {}
    /\ schedules = {}
    /\ journalEntries = {}
    /\ chatMessages \in {StoredChat(n) : n \in StoredChatSizes}
    /\ lastOp = NoOp
    /\ now = StartTime
    /\ NormIdle
    /\ GovIdle
    /\ AppIdle

NextChat ==
    \/ \E io \in IoOutcomes : InitOpen(io) /\ UNCHANGED <<normVars, now, ticks, govVars, appVars>>
    \/ \E io \in IoOutcomes : InitCreateTables(io) /\ UNCHANGED <<normVars, now, ticks, govVars, appVars>>
    \/ \E m \in ChatInputs, ioInsert \in IoOutcomes, ioDelete \in IoOutcomes :
          AddChatMessage(m, ioInsert, ioDelete) /\ UNCHANGED <<normVars, now, ticks, govVars, appVars>>

SpecChat == ChatInit /\ [][NextChat]_vars

\* the ids a caller may pass to a delete: ids the clock has produced, and one
\* that no row ever had
DeleteIds == {StartTime + k * TickMs : k \in 0..(MaxTicks + 1)}
ScheduleDates == {StartTime, StartTime + 5 * TickMs}

StoreIdle ==
    /\ db = "null"
    /\ initialized = FALSE
    /\ transactions = {}
    /\ schedules = {}
    /\ journalEntries = {}
    /\ chatMessages = {}
    /\ lastOp = NoOp

StoreInit ==
    /\ StoreIdle
    /\ now = StartTime
    /\ NormIdle
    /\ GovIdle
    /\ AppIdle

NextStore ==
    \/ Tick /\ UNCHANGED <<normVars, storeVars, govVars, appVars>>
    \/ \E io \in IoOutcomes : InitOpen(io) /\ UNCHANGED <<normVars, now, ticks, govVars, appVars>>
    \/ \E io \in IoOutcomes : InitCreateTables(io) /\ UNCHANGED <<normVars, now, ticks, govVars, appVars>>
    \/ \E t \in TransactionInputs, io \in IoOutcomes :
          AddTransaction(t, io) /\ UNCHANGED <<normVars, now, ticks, govVars, appVars>>
    \/ \E id \in DeleteIds, io \in IoOutcomes :
          DeleteTransaction(id, io) /\ UNCHANGED <<normVars, now, ticks, govVars, appVars>>
    \/ \E s \in ScheduleInputs, d \in ScheduleDates, io \in IoOutcomes :
          AddSchedule(s, d, io) /\ UNCHANGED <<normVars, now, ticks, govVars, appVars>>
    \/ \E id \in DeleteIds, io \in IoOutcomes :
          DeleteSchedule(id, io) /\ UNCHANGED <<normVars, now, ticks, govVars, appVars>>
    \/ \E e \in JournalInputs, io \in IoOutcomes :
          AddJournalEntry(e, io) /\ UNCHANGED <<normVars, now, ticks, govVars, appVars>>
    \/ \E id \in DeleteIds, io \in IoOutcomes :
          DeleteJournalEntry(id, io) /\ UNCHANGED <<normVars, now, ticks, govVars, appVars>>
    \/ \E io \in IoOutcomes : GetTransactions(io) /\ UNCHANGED <<normVars, now, ticks, govVars, appVars>>
    \/ \E io \in IoOutcomes : GetSchedules(io) /\ UNCHANGED <<normVars, now, ticks, govVars, appVars>>
    \/ \E io \in IoOutcomes : GetJournalEntries(io) /\ UNCHANGED <<normVars, now, ticks, govVars, appVars>>
    \/ \E io \in IoOutcomes : GetChatMessages(io) /\ UNCHANGED <<normVars, now, ticks, govVars, appVars>>

SpecStore == StoreInit /\ [][NextStore]_vars


NormInit ==
    /\ conversationHistory \in SeqsUpTo(Turn, MaxHistoryLen)
    /\ validHistory = <<>>
    /\ normPc = "start"
    /\ now = StartTime
    /\ StoreIdle
    /\ GovIdle
    /\ AppIdle

\* sendMessage up to model.startChat({history: validHistory})
StartChat ==
    /\ normPc = "start"
    /\ validHistory' = NormalizeHistory(conversationHistory)
    /\ normPc' = "chatStarted"
    /\ UNCHANGED <<conversationHistory, now, storeVars, ticks, govVars, appVars>>

NextNorm == StartChat

SpecNorm == NormInit /\ [][NextNorm]_vars

\* ---- observations (they record what happened; the code does not read them)

\* an outbound request to the remote model leaves now
Issued(o) ==
    [o EXCEPT !.lastIssueAt = now,
              !.closest = IF o.lastIssueAt # 0 /\ now - o.lastIssueAt < o.closest
                          THEN now - o.lastIssueAt
                          ELSE o.closest]

\* a waitForRateLimit starts: the first one after a quota signal is noted
AcqStart(o, t) ==
    IF o.signal.deadline # 0 /\ o.signal.next = <<0, 0>>
    THEN [o EXCEPT !.signal.next = t] ELSE o

\* a waitForRateLimit returns
AcqDone(o, t) ==
    IF o.signal.next = t /\ o.signal.doneAt = 0
    THEN [o EXCEPT !.signal.doneAt = now] ELSE o

\* ---- waitForRateLimit

NoSyncPending == \A t \in Threads : th[t].pc # "start"

Waiting(t) == th[t].pc \in {"waitQuota", "waitSpacing"}

\* setTimeout callbacks run in the order of their due times; two timers due at
\* the same instant may run in either order
TimerDue(t) ==
    /\ now >= th[t].wakeAt
    /\ \A u \in Threads : Waiting(u) => th[u].wakeAt >= th[t].wakeAt

\* lines 213-217: the wait that the spacing check asks for (0: none)
SpacingWait(nowL, last) ==
    IF nowL - last < minRequestInterval THEN minRequestInterval - (nowL - last) ELSE 0

\* line 218 and the request that follows the await of waitForRateLimit
GrantPart(t, thB, obsB) ==
    /\ lastRequestTime' = now
    /\ th' = [thB EXCEPT ![t].pc = "request"]
    /\ obs' = Issued(AcqDone(obsB, t))

\* lines 213-218, with the value of now read at line 203
SpacingPart(t, thB, obsB, nowL) ==
    LET wait == SpacingWait(nowL, lastRequestTime) IN
    IF wait > 0
    THEN /\ th' = [thB EXCEPT ![t].pc = "waitSpacing", ![t].nowL = nowL,
                               ![t].wakeAt = now + wait]
         /\ obs' = obsB
         /\ UNCHANGED lastRequestTime
    ELSE GrantPart(t, thB, obsB)

\* lines 203-218, up to the first await
EnterWait(t, thB, obsB) ==
    /\ IF quotaResetTime > now
       THEN /\ th' = [thB EXCEPT ![t].pc = "waitQuota", ![t].nowL = now,
                                  ![t].wakeAt = now + (quotaResetTime - now)]
            /\ obs' = AcqStart(obsB, t)
            /\ UNCHANGED lastRequestTime
       ELSE SpacingPart(t, thB, AcqStart(obsB, t), now)
    /\ UNCHANGED quotaResetTime

\* the timer of line 209 fires: lines 210-218
QuotaWake(t) ==
    /\ NoSyncPending
    /\ th[t].pc = "waitQuota"
    /\ TimerDue(t)
    /\ quotaResetTime' = 0
    /\ SpacingPart(t, th, obs, th[t].nowL)
    /\ UNCHANGED <<quoteCache, call>>

\* the timer of line 216 fires: line 218
SpacingWake(t) ==
    /\ NoSyncPending
    /\ th[t].pc = "waitSpacing"
    /\ TimerDue(t)
    /\ GrantPart(t, th, obs)
    /\ UNCHANGED <<quotaResetTime, quoteCache, call>>

\* ---- generateDailyQuote

FallbackQuote == "Every day is a new opportunity to grow."

\* line 558
QuoteHit == quoteCache.set /\ now - quoteCache.timestamp < quoteCacheDuration

QuoteOutcome(kind, text) == [NoOutcome EXCEPT !.kind = kind, !.text = text]
QuoteReturn(text, stamp) == [text |-> text, stamp |-> stamp]
\* the quotes returned so far that were cached less than the TTL ago
RecentReturns == {r \in obs.quoteReturns : now - r.stamp < quoteCacheDuration}

\* a caller (InsightsScreen.loadInsights) calls generateDailyQuote
CallGenerateDailyQuote(p) ==
    /\ NoSyncPending
    /\ th[Main(p)].pc = "idle"
    /\ LET c == [NoCall EXCEPT !.op = "generateDailyQuote", !.seq = obs.started + 1,
                               !.prior = RecentReturns,
                               !.stale = (quoteCache.set /\ ~QuoteHit)]
           o == [obs EXCEPT !.started = @ + 1]
           thB == [th EXCEPT ![Main(p)].job = "quote"]
       IN  IF QuoteHit
           THEN /\ call' = [call EXCEPT ![p] =
                              [c EXCEPT !.outcome = QuoteOutcome("quote", quoteCache.text)]]
                /\ th' = [thB EXCEPT ![Main(p)].pc = "done"]
                /\ obs' = [o EXCEPT !.quoteReturns =
                              @ \cup {QuoteReturn(quoteCache.text, quoteCache.timestamp)}]
                /\ UNCHANGED <<lastRequestTime, quotaResetTime>>
           ELSE /\ call' = [call EXCEPT ![p] = [c EXCEPT !.usedRemote = TRUE]]
                /\ EnterWait(Main(p), thB, o)
    /\ UNCHANGED quoteCache

\* the promise of handler t of a round settles: the handlers of the round
\* that have settled, in the order they did
Settled(c, t) == [c EXCEPT ![t[1]].completed = Append(@, t[2])]

\* generateContent resolves: lines 569-573
QuoteRespondText(t, text) ==
    /\ NoSyncPending
    /\ th[t].pc = "request"
    /\ th[t].job = "quote"
    /\ RemoteAccepts
    /\ quoteCache' = [text |-> text, timestamp |-> now, set |-> TRUE]
    /\ IF t[2] = 0
       THEN /\ call' = [call EXCEPT ![t[1]].outcome = QuoteOutcome("quote", text)]
            /\ th' = [th EXCEPT ![t].pc = "done"]
            /\ obs' = [obs EXCEPT !.quoteReturns = @ \cup {QuoteReturn(text, now)}]
       ELSE /\ th' = [th EXCEPT ![t].pc = "done", ![t].result = [status |-> "ok", text |-> text]]
            /\ call' = Settled(call, t)
            /\ UNCHANGED obs
    /\ UNCHANGED <<lastRequestTime, quotaResetTime>>

\* generateContent rejects: lines 574-577
QuoteRespondError(t) ==
    /\ NoSyncPending
    /\ th[t].pc = "request"
    /\ th[t].job = "quote"
    /\ IF t[2] = 0
       THEN /\ call' = [call EXCEPT ![t[1]].outcome = QuoteOutcome("quoteFallback", FallbackQuote)]
            /\ th' = [th EXCEPT ![t].pc = "done"]
       ELSE /\ th' = [th EXCEPT ![t].pc = "done",
                                ![t].result = [status |-> "ok", text |-> FallbackQuote]]
            /\ call' = Settled(call, t)
    /\ UNCHANGED <<lastRequestTime, quotaResetTime, quoteCache, obs>>

\* ---- sendMessage

Includes(e, word) == word \in e.markers
Min(a, b) == IF a < b THEN a ELSE b

\* line 487
IsQuotaError(e) == Includes(e, "429") \/ Includes(e, "quota") \/ Includes(e, "RESOURCE_EXHAUSTED")
\* line 497
IsAuthError(e) == Includes(e, "PERMISSION_DENIED") \/ Includes(e, "UNAUTHENTICATED")

\* the bug of letting an unclassified failure escape the catch
CatchOutcomeRethrow(e) ==
    IF IsQuotaError(e)
    THEN [NoOutcome EXCEPT !.kind = "quotaWait", !.text = "I've hit my API quota. Please wait", !.error = e]
    ELSE IF IsAuthError(e)
    THEN [NoOutcome EXCEPT !.kind = "apiKey", !.text = "There's an issue with my API key", !.error = e]
    ELSE [NoOutcome EXCEPT !.kind = "generic", !.threw = TRUE, !.error = e]

\* the catch of sendMessage, lines 483-508: what the call resolves with;
\* chars is the number of characters of the error text that the generic
\* message carries (errorMsg.substring(0, 100))
CatchOutcome(e) ==
    IF IsQuotaError(e)
    THEN [NoOutcome EXCEPT !.kind = "quotaWait", !.text = "I've hit my API quota. Please wait", !.error = e]
    ELSE IF IsAuthError(e)
    THEN [NoOutcome EXCEPT !.kind = "apiKey", !.text = "There's an issue with my API key", !.error = e]
    ELSE [NoOutcome EXCEPT !.kind = "generic", !.text = e.name, !.chars = Min(e.length, 100), !.error = e]

\* line 489
CatchCooldown(e) == IF IsQuotaError(e) THEN now + quotaCooldown ELSE quotaResetTime

\* a caller (ChatScreen.sendMessage) calls sendMessage: line 307
CallSendMessage(p) ==
    /\ NoSyncPending
    /\ th[Main(p)].pc = "idle"
    /\ call' = [call EXCEPT ![p] = [NoCall EXCEPT !.op = "sendMessage",
                                      !.seq = obs.started + 1]]
    /\ EnterWait(Main(p), [th EXCEPT ![Main(p)].job = "sendMessage"],
                 [obs EXCEPT !.started = @ + 1])
    /\ UNCHANGED quoteCache

InRequest(p) == th[Main(p)].pc = "request" /\ th[Main(p)].job = "sendMessage"

\* the bug of returning a fresh list in place of executedActions
ReplyOutcomeNoLog(p) ==
    [NoOutcome EXCEPT !.kind = "reply", !.text = "model text"]

\* { text: response.response.text(), actions: executedActions }
ReplyOutcome(p) ==
    [NoOutcome EXCEPT !.kind = "reply", !.text = "model text",
                      !.actions = call[p].actions]

\* a response without function calls: lines 479-482
RespondText(p) ==
    /\ NoSyncPending
    /\ InRequest(p)
    /\ RemoteAccepts
    /\ call' = [call EXCEPT ![p].outcome = ReplyOutcome(p)]
    /\ th' = [th EXCEPT ![Main(p)].pc = "done"]
    /\ UNCHANGED <<lastRequestTime, quotaResetTime, quoteCache, obs>>

\* chat.sendMessage rejects, or reading the response throws: the catch
RespondError(p, e) ==
    /\ NoSyncPending
    /\ InRequest(p)
    /\ e \in PossibleErrors
    /\ call' = [call EXCEPT ![p].outcome = CatchOutcome(e)]
    /\ quotaResetTime' = CatchCooldown(e)
    /\ obs' = IF IsQuotaError(e)
              THEN [obs EXCEPT !.signal = [deadline |-> now + quotaCooldown,
                                           next |-> <<0, 0>>, doneAt |-> 0]]
              ELSE obs
    /\ th' = [th EXCEPT ![Main(p)].pc = "done"]
    /\ UNCHANGED <<lastRequestTime, quoteCache>>

\* a response with function calls: Promise.all(functionCalls.map(...)) is
\* entered, lines 341-344
RespondToolCalls(p, batch) ==
    /\ NoSyncPending
    /\ InRequest(p)
    /\ RemoteAccepts
    /\ call[p].round < MaxRounds
    /\ th' = [t \in Threads |->
                IF t = Main(p) THEN [th[t] EXCEPT !.pc = "handlers"]
                ELSE IF t[1] = p /\ t[2] \in 1..Len(batch)
                THEN [IdleThread EXCEPT !.pc = "start", !.tool = batch[t[2]]]
                ELSE th[t]]
    /\ call' = [call EXCEPT ![p].batch = Len(batch), ![p].asked = @ \o batch,
                             ![p].calls = batch, ![p].completed = <<>>,
                             ![p].sent = <<>>]
    /\ UNCHANGED <<lastRequestTime, quotaResetTime, quoteCache, obs>>

DbTools == {"logTransaction", "scheduleMeeting", "addJournalEntry"}
ReadTools == {"getUserFinances", "getUserSchedule", "getUserJournals"}
\* the cases of the switch, lines 349-455
KnownTools ==
    DbTools \cup ReadTools \cup {"getDailyQuote", "searchWeb"}

\* the bug of a switch without the default case: result keeps its initial value
DefaultResult == [status |-> "ok", text |-> "Function executed successfully."]

\* default: result = { result: 'Unknown function' }
UnknownResult == [status |-> "ok", text |-> "Unknown function"]

\* the callback of map runs for the calls in order, each up to its first
\* await: the store methods read Date.now() for the id here. A searchWeb call
\* is not started in a round: performWebSearch is modelled as called by its
\* caller directly (CallPerformWebSearch)
StartHandler(t) ==
    /\ t[2] > 0
    /\ th[t].pc = "start"
    /\ \A i \in 1..(t[2] - 1) : th[<<t[1], i>>].pc # "start"
    /\ IF th[t].tool.name \in DbTools
       THEN /\ th' = [th EXCEPT ![t].pc = "db", ![t].id = now]
            /\ UNCHANGED <<lastRequestTime, quotaResetTime, obs>>
       ELSE IF th[t].tool.name \in ReadTools
       THEN /\ th' = [th EXCEPT ![t].pc = "read"]
            /\ UNCHANGED <<lastRequestTime, quotaResetTime, obs>>
       ELSE IF th[t].tool.name = "getDailyQuote"
       THEN IF QuoteHit
            THEN /\ th' = [th EXCEPT ![t].pc = "done", ![t].job = "quote",
                                     ![t].result = [status |-> "ok", text |-> quoteCache.text]]
                 /\ UNCHANGED <<lastRequestTime, quotaResetTime, obs>>
            ELSE EnterWait(t, [th EXCEPT ![t].job = "quote"], obs)
       ELSE /\ th[t].tool.name \notin KnownTools
            /\ th' = [th EXCEPT ![t].pc = "done", ![t].result = UnknownResult]
            /\ UNCHANGED <<lastRequestTime, quotaResetTime, obs>>
    /\ call' = IF th'[t].pc = "done" THEN Settled(call, t) ELSE call
    /\ UNCHANGED quoteCache

\* new Date(call.args.date): the instant the text denotes, or Invalid Date
ParseDate(d) == IF d = "2025-01-15" THEN StartTime + 86400000 ELSE InvalidDate

Action(type, args) == [type |-> type, data |-> args, executed |-> TRUE]
Ok(text) == [status |-> "ok", text |-> text]
Failed(msg) == [status |-> "error", text |-> msg]

\* the store statement of a mutating handler completes: lines 349-394 and the
\* inner catch, lines 460-463; the row was built when the handler started
HandlerDb(t, io) ==
    /\ NoSyncPending
    /\ th[t].pc = "db"
    /\ LET id == th[t].id
           name == th[t].tool.name
           args == th[t].tool.args
           p == t[1]
       IN  /\ CASE name = "logTransaction" -> AddTransactionAt(id, args, id, io)
                [] name = "scheduleMeeting" ->
                     AddScheduleAt(id, [title |-> args.title, description |-> args.description,
                                        time |-> args.time, reminder |-> 15],
                                   ParseDate(args.date), io)
                [] name = "addJournalEntry" -> AddJournalEntryAt(id, args, id, io)
           /\ IF lastOp'.threw
              THEN /\ th' = [th EXCEPT ![t].pc = "done", ![t].result = Failed(lastOp'.error)]
                   /\ call' = Settled(call, t)
              ELSE /\ th' = [th EXCEPT ![t].pc = "done", ![t].result = Ok(name)]
                   /\ call' = [Settled(call, t) EXCEPT
                                 ![p].actions = Append(@,
                                     Action(CASE name = "logTransaction" -> "transaction"
                                              [] name = "scheduleMeeting" -> "schedule"
                                              [] name = "addJournalEntry" -> "journal", args)),
                                 ![p].wrote = @ \cup {[table |-> name, id |-> id]}]
    /\ UNCHANGED <<lastRequestTime, quotaResetTime, quoteCache, obs>>

RECURSIVE SumAmounts(_)
\* reduce((sum, t) => sum + t.amount, 0)
SumAmounts(rows) ==
    IF rows = {} THEN 0
    ELSE LET r == CHOOSE x \in rows : TRUE IN r.amount + SumAmounts(rows \ {r})

RECURSIVE FirstRows(_, _, _)
\* slice(0, n) of the rows in the order of the SELECT (date ASC or DESC; rows
\* of equal date in the order the CHOOSE fixes)
FirstRows(rows, n, asc) ==
    IF n = 0 \/ rows = {} THEN {}
    ELSE LET r == CHOOSE x \in rows :
                     \A y \in rows : IF asc THEN x.date <= y.date ELSE x.date >= y.date
         IN  {r} \cup FirstRows(rows \ {r}, n - 1, asc)

\* lines 402-416: the totals over every row getTransactions returned
FinanceSummary(rows) ==
    LET totalIncome == SumAmounts({r \in rows : r.type = "income"})
        totalExpense == SumAmounts({r \in rows : r.type = "expense"})
    IN  [totalIncome |-> totalIncome, totalExpense |-> totalExpense,
         balance |-> totalIncome - totalExpense, transactionCount |-> Cardinality(rows)]

\* lines 419-426
ScheduleSummary(rows) ==
    [upcomingCount |-> Cardinality({s \in rows : s.date > now}),
     totalSchedules |-> Cardinality(rows),
     schedules |-> FirstRows(rows, 5, TRUE)]

\* lines 429-444
JournalSummary(rows) ==
    [totalEntries |-> Cardinality(rows),
     moodCounts |-> [m \in {e.mood : e \in rows} |-> Cardinality({e \in rows : e.mood = m})],
     recentEntries |-> FirstRows(rows, 3, FALSE)]

\* the read of a getUser... handler completes: lines 401-446 and the inner
\* catch; call.args (the period) is not read
HandlerRead(t, io) ==
    /\ NoSyncPending
    /\ th[t].pc = "read"
    /\ LET name == th[t].tool.name IN
         /\ CASE name = "getUserFinances" -> GetTransactions(io)
              [] name = "getUserSchedule" -> GetSchedules(io)
              [] name = "getUserJournals" -> GetJournalEntries(io)
         /\ th' = [th EXCEPT ![t].pc = "done",
                    ![t].result =
                       IF lastOp'.threw THEN Failed(lastOp'.error)
                       ELSE Ok(CASE name = "getUserFinances" -> FinanceSummary(lastOp'.rows)
                                 [] name = "getUserSchedule" -> ScheduleSummary(lastOp'.rows)
                                 [] name = "getUserJournals" -> JournalSummary(lastOp'.rows))]
    /\ call' = Settled(call, t)
    /\ UNCHANGED <<lastRequestTime, quotaResetTime, quoteCache, obs>>

HandlersDone(p) ==
    /\ th[Main(p)].pc = "handlers"
    /\ \A i \in 1..call[p].batch : th[<<p, i>>].pc = "done"

FunctionResponse(p, i) ==
    [name |-> th[<<p, i>>].tool.name, response |-> th[<<p, i>>].result]

\* the bug of collecting the results as the handlers settle
ResponsesAsSettled(p) ==
    [k \in 1..Len(call[p].completed) |-> FunctionResponse(p, call[p].completed[k])]

\* functionResponses: Promise.all resolves with the handlers' values in the
\* order of functionCalls, lines 343-472
Responses(p) ==
    [i \in 1..call[p].batch |-> FunctionResponse(p, i)]

\* Promise.all resolves: the tool results go back to the model, line 475
FollowUp(p) ==
    /\ NoSyncPending
    /\ HandlersDone(p)
    /\ th' = [t \in Threads |->
                IF t = Main(p) THEN [th[t] EXCEPT !.pc = "request"]
                ELSE IF t[1] = p THEN IdleThread
                ELSE th[t]]
    /\ call' = [call EXCEPT ![p].round = @ + 1, ![p].batch = 0, ![p].sent = Responses(p)]
    /\ obs' = Issued(obs)
    /\ UNCHANGED <<lastRequestTime, quotaResetTime, quoteCache>>

\* the caller takes the value its call resolved with
Return(p) ==
    /\ NoSyncPending
    /\ th[Main(p)].pc = "done"
    /\ th' = [th EXCEPT ![Main(p)] = IdleThread]
    /\ call' = [call EXCEPT ![p] = NoCall]
    /\ UNCHANGED <<lastRequestTime, quotaResetTime, quoteCache, obs>>

\* ---- performWebSearch

\* line 200
searchCacheDuration == 1800000
\* line 547
searchQuotaCooldown == 120000

\* result.response.text() of a search: some text, or none
SearchTexts == {"gold is at 6000", ""}
SearchErrors == {e \in ApiErrors : e.name \in {"[429 Too Many Requests] quota exceeded", "fetch failed"}}

\* line 516: cached && Date.now() - cached.timestamp < this.searchCacheDuration
SearchHit(key) ==
    searchCache[key].set /\ now - searchCache[key].timestamp < searchCacheDuration

SearchReturn(key, text, stamp) == [key |-> key, text |-> text, stamp |-> stamp]
\* the successful searches for key whose entry would still be fresh
RecentSearches(key) ==
    {r \in obs.searchReturns : r.key = key /\ now - r.stamp < searchCacheDuration}

\* the searchWeb handler of a sendMessage round calls performWebSearch(query):
\* lines 512-521, up to the first await
CallPerformWebSearch(p, query) ==
    /\ NoSyncPending
    /\ th[Main(p)].pc = "idle"
    /\ LET key == ToLowerCase(query)
           c == [NoCall EXCEPT !.op = "performWebSearch", !.seq = obs.started + 1,
                               !.prior = RecentSearches(key)]
           o == [obs EXCEPT !.started = @ + 1]
           thB == [th EXCEPT ![Main(p)].job = "search",
                             ![Main(p)].tool = [name |-> "searchWeb", args |-> [query |-> query]]]
       IN  IF SearchHit(key)
           THEN /\ call' = [call EXCEPT ![p] =
                              [c EXCEPT !.outcome = QuoteOutcome("search", searchCache[key].text)]]
                /\ th' = [thB EXCEPT ![Main(p)].pc = "done"]
                /\ obs' = o
                /\ UNCHANGED <<lastRequestTime, quotaResetTime>>
           ELSE /\ call' = [call EXCEPT ![p] = [c EXCEPT !.usedRemote = TRUE]]
                /\ EnterWait(Main(p), thB, o)
    /\ UNCHANGED <<quoteCache, searchCache>>

\* line 541: return text || 'No information found.'
ReturnedText(text) == IF text = "" THEN "No information found." ELSE text

\* the bug of caching the error text in the catch
SearchCatchCaches(key, text) ==
    [searchCache EXCEPT ![key] = [set |-> TRUE, text |-> text, timestamp |-> now]]

\* lines 542-552: the catch returns a text and leaves searchCache alone
SearchCatch(key, text) == searchCache

\* generateContent resolves: lines 535-541
SearchRespondText(t, text) ==
    /\ NoSyncPending
    /\ th[t].pc = "request"
    /\ th[t].job = "search"
    /\ RemoteAccepts
    /\ LET key == ToLowerCase(th[t].tool.args.query) IN
         /\ searchCache' = [searchCache EXCEPT ![key] = [set |-> TRUE, text |-> text, timestamp |-> now]]
         /\ obs' = [obs EXCEPT !.searchReturns = @ \cup {SearchReturn(key, ReturnedText(text), now)}]
    /\ call' = [call EXCEPT ![t[1]].outcome = QuoteOutcome("search", ReturnedText(text))]
    /\ th' = [th EXCEPT ![t].pc = "done"]
    /\ UNCHANGED <<lastRequestTime, quotaResetTime, quoteCache>>

SearchQuotaText == "I've hit my search quota. Please wait a couple of minutes before trying again."
SearchFailedText == "Unable to search at this moment. Please try again later."

\* generateContent rejects: lines 542-552
SearchRespondError(t, e) ==
    /\ NoSyncPending
    /\ th[t].pc = "request"
    /\ th[t].job = "search"
    /\ LET text == IF IsQuotaError(e) THEN SearchQuotaText ELSE SearchFailedText IN
         /\ call' = [call EXCEPT ![t[1]].outcome =
                         [QuoteOutcome("searchFailed", text) EXCEPT !.error = e]]
         /\ searchCache' = SearchCatch(ToLowerCase(th[t].tool.args.query), text)
    /\ quotaResetTime' = IF IsQuotaError(e) THEN now + searchQuotaCooldown ELSE quotaResetTime
    /\ th' = [th EXCEPT ![t].pc = "done"]
    /\ UNCHANGED <<lastRequestTime, quoteCache, obs>>

\* ---- time

PendingWakes == {th[t].wakeAt : t \in {u \in Threads : Waiting(u)}}

\* the clock reaches the earliest pending timer
JumpToTimer ==
    /\ NoSyncPending
    /\ PendingWakes # {}
    /\ LET first == CHOOSE w \in PendingWakes : \A v \in PendingWakes : w <= v
       IN  /\ first > now
           /\ now' = first
    /\ UNCHANGED ticks

\* the clock reaches the instant the cached quote expires
JumpToExpiry ==
    /\ NoSyncPending
    /\ PendingWakes = {}
    /\ quoteCache.set
    /\ now < quoteCache.timestamp + quoteCacheDuration
    /\ now' = quoteCache.timestamp + quoteCacheDuration
    /\ UNCHANGED ticks

\* App has run databaseService.init() before a screen calls the service
Init ==
    /\ NormIdle
    /\ now = StartTime
    /\ db = "open"
    /\ initialized = TRUE
    /\ transactions = {}
    /\ schedules = {}
    /\ journalEntries = {}
    /\ chatMessages = {}
    /\ lastOp = NoOp
    /\ GovIdle
    /\ apiKey \in ApiKeys
    /\ searchCache = EmptySearchCache
    /\ turn = NoTurn
    /\ queue = IdleQueue

Rest == UNCHANGED <<normVars, storeVars, now, ticks, appVars>>
Frozen == UNCHANGED <<normVars, storeVars, govVars, appVars>>

\* the chat screen sends one message at a time (its send button is disabled
\* while a message is in flight): one caller, the whole tool loop
ChatCallers == {1}

Next ==
    \/ NoSyncPending /\ Tick /\ Frozen
    \/ JumpToTimer /\ Frozen
    \/ \E p \in ChatCallers : obs.started < MaxChatCalls /\ CallSendMessage(p) /\ Rest
    \/ \E t \in Threads : QuotaWake(t) /\ Rest
    \/ \E t \in Threads : SpacingWake(t) /\ Rest
    \/ \E p \in ChatCallers : RespondText(p) /\ Rest
    \/ \E p \in ChatCallers, e \in ApiErrors : RespondError(p, e) /\ Rest
    \/ \E p \in ChatCallers, b \in ToolBatches : RespondToolCalls(p, b) /\ Rest
    \/ \E t \in Threads : StartHandler(t) /\ Rest
    \/ \E t \in Threads, io \in IoOutcomes : HandlerDb(t, io) /\ UNCHANGED <<normVars, now, ticks, appVars>>
    \/ \E p \in ChatCallers : FollowUp(p) /\ Rest
    \/ \E t \in Threads, q \in QuoteTexts : QuoteRespondText(t, q) /\ Rest
    \/ \E t \in Threads : QuoteRespondError(t) /\ Rest
    \/ \E p \in ChatCallers : Return(p) /\ Rest

Spec == Init /\ [][Next]_vars

\* the steps the runtime and the remote model take by themselves: timers
\* fire, store statements complete, promises settle, the remote answers
Progress ==
    \/ JumpToTimer /\ Frozen
    \/ \E t \in Threads : QuotaWake(t) /\ Rest
    \/ \E t \in Threads : SpacingWake(t) /\ Rest
    \/ \E p \in ChatCallers : RespondText(p) /\ Rest
    \/ \E p \in ChatCallers, e \in ApiErrors : RespondError(p, e) /\ Rest
    \/ \E t \in Threads : StartHandler(t) /\ Rest
    \/ \E t \in Threads, io \in IoOutcomes : HandlerDb(t, io) /\ UNCHANGED <<normVars, now, ticks, appVars>>
    \/ \E p \in ChatCallers : FollowUp(p) /\ Rest
    \/ \E t \in Threads, q \in QuoteTexts : QuoteRespondText(t, q) /\ Rest
    \/ \E t \in Threads : QuoteRespondError(t) /\ Rest

\* Spec under an event loop that keeps running and a remote that answers
SpecLive == Spec /\ WF_vars(Progress)

\* the service's callers run concurrently (the four requests of
\* InsightsScreen.loadInsights, a chat message sent meanwhile): sendMessage
\* calls that the model answers with text or that fail
NextGov ==
    \/ NoSyncPending /\ Tick /\ Frozen
    \/ JumpToTimer /\ Frozen
    \/ \E p \in Callers : obs.started < MaxCalls /\ CallSendMessage(p) /\ Rest
    \/ \E t \in Threads : QuotaWake(t) /\ Rest
    \/ \E t \in Threads : SpacingWake(t) /\ Rest
    \/ \E p \in Callers : RespondText(p) /\ Rest
    \/ \E p \in Callers, e \in QuotaErrors : RespondError(p, e) /\ Rest
    \/ \E p \in Callers : Return(p) /\ Rest

SpecGov == Init /\ [][NextGov]_vars

\* concurrent generateDailyQuote calls
NextQuote ==
    \/ JumpToTimer /\ Frozen
    \/ JumpToExpiry /\ Frozen
    \/ \E p \in Callers : obs.started < MaxQuoteCalls /\ CallGenerateDailyQuote(p) /\ Rest
    \/ \E t \in Threads : SpacingWake(t) /\ Rest
    \/ \E t \in Threads, q \in QuoteTexts : QuoteRespondText(t, q) /\ Rest
    \/ \E t \in Threads : QuoteRespondError(t) /\ Rest
    \/ \E p \in Callers : Return(p) /\ Rest

SpecQuote == Init /\ [][NextQuote]_vars

\* the instants at which a fresh search entry stops being fresh
SearchExpiries ==
    {searchCache[k].timestamp + searchCacheDuration :
        k \in {j \in SearchKeys : searchCache[j].set /\ SearchHit(j)}}

\* the clock reaches the instant the oldest fresh search entry expires
JumpToSearchExpiry ==
    /\ NoSyncPending
    /\ PendingWakes = {}
    /\ SearchExpiries # {}
    /\ now' = CHOOSE w \in SearchExpiries : \A v \in SearchExpiries : w <= v
    /\ UNCHANGED ticks

CacheRest == UNCHANGED <<normVars, storeVars, now, ticks, apiKey, turn, queue>>

\* concurrent generateDailyQuote and performWebSearch calls
NextCache ==
    \/ JumpToTimer /\ Frozen
    \/ JumpToSearchExpiry /\ Frozen
    \/ \E p \in Callers : obs.started < MaxCacheCalls /\ CallGenerateDailyQuote(p) /\ Rest
    \/ \E p \in Callers, q \in SearchQueries :
          obs.started < MaxCacheCalls /\ CallPerformWebSearch(p, q) /\ CacheRest
    \/ \E t \in Threads : QuotaWake(t) /\ Rest
    \/ \E t \in Threads : SpacingWake(t) /\ Rest
    \/ \E t \in Threads, q \in QuoteTexts : QuoteRespondText(t, q) /\ Rest
    \/ \E t \in Threads : QuoteRespondError(t) /\ Rest
    \/ \E t \in Threads, text \in SearchTexts : SearchRespondText(t, text) /\ CacheRest
    \/ \E t \in Threads, e \in SearchErrors : SearchRespondError(t, e) /\ CacheRest
    \/ \E p \in Callers : Return(p) /\ Rest

\* the app built with its key
CacheInit == Init /\ apiKey # ""

SpecCache == CacheInit /\ [][NextCache]_vars

\* ------------------------------------------------------------------------
\* ChatScreen.sendMessage: one turn of the conversation
\* ------------------------------------------------------------------------

\* userMsg: id Date.now().toString(), timestamp new Date()
UserMsg == [id |-> now, isUser |-> TRUE, timestamp |-> now]
\* aiMsg: id (Date.now() + 1).toString(), timestamp new Date()
AiMsg == [id |-> now + 1, isUser |-> FALSE, timestamp |-> now]

\* the send button is pressed (it is disabled while loading): userMsg is built
\* and await databaseService.addChatMessage(userMsg) runs; a throw goes to the
\* catch, which shows an error bubble and stores nothing, and finally clears
\* loading
TurnSaveUser(ioInsert, ioDelete) ==
    /\ turn.pc = "idle"
    /\ turn.sent < MaxChatCalls
    /\ AddChatMessage(UserMsg, ioInsert, ioDelete)
    /\ turn' = IF lastOp'.threw
               THEN [pc |-> "idle", userId |-> now, aiId |-> 0, ended |-> "failed",
                     sent |-> turn.sent + 1]
               ELSE [pc |-> "saved", userId |-> now, aiId |-> 0, ended |-> "none",
                     sent |-> turn.sent + 1]
    /\ UNCHANGED <<normVars, now, ticks, govVars, apiKey, queue, searchCache>>

\* the history is built and geminiService.sendMessage is called, line 98
TurnCallService ==
    /\ turn.pc = "saved"
    /\ CallSendMessage(1)
    /\ turn' = [turn EXCEPT !.pc = "calling"]
    /\ UNCHANGED <<normVars, storeVars, now, ticks, apiKey, queue, searchCache>>

\* sendMessage has returned {text, actions}: the confirmations are appended,
\* aiMsg is built and await databaseService.addChatMessage(aiMsg) runs; the
\* reload of the transactions that follows only reads
TurnSaveAi(ioInsert, ioDelete) ==
    /\ turn.pc = "calling"
    /\ Return(1)
    /\ AddChatMessage(AiMsg, ioInsert, ioDelete)
    /\ turn' = [turn EXCEPT !.pc = "idle", !.aiId = now + 1,
                            !.ended = IF lastOp'.threw THEN "failed" ELSE "completed"]
    /\ UNCHANGED <<normVars, now, ticks, apiKey, queue, searchCache>>

\* lumina.db holds the conversation of earlier runs when the screen opens
TurnInit ==
    /\ NormIdle
    /\ now = StartTime
    /\ db = "open"
    /\ initialized = TRUE
    /\ transactions = {}
    /\ schedules = {}
    /\ journalEntries = {}
    /\ chatMessages \in {StoredChat(n) : n \in StoredChatSizes}
    /\ lastOp = NoOp
    /\ GovIdle
    /\ AppIdle

TurnRest == UNCHANGED <<normVars, storeVars, now, ticks, appVars>>

\* one turn at a time, the whole tool loop; requests that fail, fail with the
\* errors of QuotaErrors (every failure ends in a returned value)
NextTurn ==
    \/ NoSyncPending /\ Tick /\ Frozen
    \/ JumpToTimer /\ Frozen
    \/ \E ioInsert \in IoOutcomes, ioDelete \in IoOutcomes : TurnSaveUser(ioInsert, ioDelete)
    \/ TurnCallService
    \/ \E t \in Threads : QuotaWake(t) /\ TurnRest
    \/ \E t \in Threads : SpacingWake(t) /\ TurnRest
    \/ RespondText(1) /\ TurnRest
    \/ \E e \in QuotaErrors : RespondError(1, e) /\ TurnRest
    \/ \E b \in ToolBatches : RespondToolCalls(1, b) /\ TurnRest
    \/ \E t \in Threads : StartHandler(t) /\ TurnRest
    \/ \E t \in Threads, io \in IoOutcomes : HandlerDb(t, io) /\ UNCHANGED <<normVars, now, ticks, appVars>>
    \/ FollowUp(1) /\ TurnRest
    \/ \E t \in Threads, q \in QuoteTexts : QuoteRespondText(t, q) /\ TurnRest
    \/ \E t \in Threads : QuoteRespondError(t) /\ TurnRest
    \/ \E ioInsert \in IoOutcomes, ioDelete \in IoOutcomes : TurnSaveAi(ioInsert, ioDelete)

SpecTurn == TurnInit /\ [][NextTurn]_vars

\* ------------------------------------------------------------------------
\* sendMessage rounds over a store that holds earlier records
\* ------------------------------------------------------------------------

\* milliseconds of a day
DayMs == 24 * 60 * 60 * 1000

\* rounds the remote model may ask for: reads with a period, two writes of
\* one kind, a write with an amount the model made up
RoundBatches ==
    { <<[name |-> "getUserFinances", args |-> [period |-> "today"]]>>,
      <<[name |-> "getUserFinances", args |-> [period |-> "all"]]>>,
      <<[name |-> "getUserSchedule", args |-> [period |-> "today"]],
        [name |-> "getUserJournals", args |-> [period |-> "all"]]>>,
      <<[name |-> "logTransaction",
         args |-> [amount |-> 250, type |-> "expense", category |-> "Food", description |-> "lunch"]],
        [name |-> "logTransaction",
         args |-> [amount |-> 40, type |-> "expense", category |-> "Transport", description |-> "bus"]]>>,
      <<[name |-> "logTransaction",
         args |-> [amount |-> 0 - 50, type |-> "expense", category |-> "Food", description |-> "refund"]]>> }

\* what an earlier day of use left in lumina.db: a salary, a meeting and a
\* journal entry, all of yesterday
RoundInit ==
    /\ NormIdle
    /\ now = StartTime
    /\ db = "open"
    /\ initialized = TRUE
    /\ transactions =
          {TransactionRow(StartTime - DayMs,
                          [amount |-> 5000, type |-> "income", category |-> "Salary",
                           description |-> ""], StartTime - DayMs)}
    /\ schedules =
          {ScheduleRow(StartTime - DayMs + 1,
                       [title |-> "standup", description |-> "", time |-> "09:00", reminder |-> 15],
                       StartTime - DayMs)}
    /\ journalEntries =
          {JournalRow(StartTime - DayMs + 2, [content |-> "a quiet day", mood |-> "calm"],
                      StartTime - DayMs)}
    /\ chatMessages = {}
    /\ lastOp = NoOp
    /\ GovIdle
    /\ AppIdle

\* one caller, requests that succeed, rounds of RoundBatches
NextRound ==
    \/ NoSyncPending /\ Tick /\ Frozen
    \/ JumpToTimer /\ Frozen
    \/ obs.started < MaxChatCalls /\ CallSendMessage(1) /\ Rest
    \/ \E t \in Threads : SpacingWake(t) /\ Rest
    \/ RespondText(1) /\ Rest
    \/ \E b \in RoundBatches : RespondToolCalls(1, b) /\ Rest
    \/ \E t \in Threads : StartHandler(t) /\ Rest
    \/ \E t \in Threads, io \in IoOutcomes : HandlerDb(t, io) /\ UNCHANGED <<normVars, now, ticks, appVars>>
    \/ \E t \in Threads, io \in IoOutcomes : HandlerRead(t, io) /\ UNCHANGED <<normVars, now, ticks, appVars>>
    \/ FollowUp(1) /\ Rest
    \/ Return(1) /\ Rest

SpecRound == RoundInit /\ [][NextRound]_vars

\* ------------------------------------------------------------------------
\* GeminiService.queueRequest / processQueue
\* ------------------------------------------------------------------------

\* the bug of a guard that does not look at isProcessingQueue
NoReentryGuard(q) == q.requestQueue # <<>>

\* line 236, negated: processQueue goes on to drain
MayDrain(q) == ~(q.isProcessingQueue \/ Len(q.requestQueue) = 0)

\* lines 240-243: request = requestQueue.shift(); await request(): the
\* wrapper runs up to its await fn(), so the task has started
StartNext(q, d) ==
    LET k == Head(q.requestQueue) IN
    [q EXCEPT !.requestQueue = Tail(@),
              !.started = Append(@, k),
              !.running = @ \cup {k},
              !.loop[d] = [pc |-> "task", task |-> k, nowL |-> 0, wakeAt |-> 0]]

\* line 239 evaluated again, and line 250 when the queue is empty
LoopNext(q, d) ==
    IF Len(q.requestQueue) > 0
    THEN StartNext(q, d)
    ELSE [q EXCEPT !.isProcessingQueue = FALSE, !.loop[d] = NoLoop]

ActiveLoops == {d \in Tasks : queue.loop[d].pc # "off"}
LoopWaiting(d) == queue.loop[d].pc \in {"waitQuota", "waitSpacing"}

\* queueRequest(fn): the wrapper is pushed and processQueue is called, which
\* returns at once or sets the flag and starts the head of the queue
QueueRequest ==
    /\ queue.enqueued < MaxTasks
    /\ LET k == queue.enqueued + 1
           pushed == [queue EXCEPT !.requestQueue = Append(@, k), !.enqueued = k]
       IN  queue' = IF MayDrain(pushed)
                    THEN StartNext([pushed EXCEPT !.isProcessingQueue = TRUE], k)
                    ELSE pushed
    /\ UNCHANGED <<lastRequestTime, quotaResetTime>>

\* the bug of a task's error escaping the loop: processQueue ends with the
\* flag still set
TaskSettlesUncaught(d, outcome) ==
    /\ queue.loop[d].pc = "task"
    /\ queue' = [queue EXCEPT !.settled[queue.loop[d].task] = outcome,
                              !.running = @ \ {queue.loop[d].task},
                              !.loop[d] = IF outcome = "rejected" THEN NoLoop
                                          ELSE [@ EXCEPT !.pc = "settled"]]
    /\ UNCHANGED <<lastRequestTime, quotaResetTime>>

\* fn() settles: the wrapper calls resolve(result) or reject(error) of the
\* promise queueRequest returned, and never rejects itself
TaskSettles(d, outcome) ==
    /\ queue.loop[d].pc = "task"
    /\ queue' = [queue EXCEPT !.settled[queue.loop[d].task] = outcome,
                              !.running = @ \ {queue.loop[d].task},
                              !.loop[d].pc = "settled"]
    /\ UNCHANGED <<lastRequestTime, quotaResetTime>>

\* line 218, then the while condition
LoopGrant(d) ==
    /\ lastRequestTime' = now
    /\ queue' = LoopNext(queue, d)

\* lines 213-218, with the value of now read at line 203
LoopSpacingPart(d, nowL) ==
    LET wait == SpacingWait(nowL, lastRequestTime) IN
    IF wait > 0
    THEN /\ queue' = [queue EXCEPT !.loop[d].pc = "waitSpacing", !.loop[d].nowL = nowL,
                                   !.loop[d].wakeAt = now + wait]
         /\ UNCHANGED lastRequestTime
    ELSE LoopGrant(d)

\* line 246: await this.waitForRateLimit(), up to its first await
LoopEnterWait(d) ==
    /\ queue.loop[d].pc = "settled"
    /\ IF quotaResetTime > now
       THEN /\ queue' = [queue EXCEPT !.loop[d].pc = "waitQuota", !.loop[d].nowL = now,
                                      !.loop[d].wakeAt = now + (quotaResetTime - now)]
            /\ UNCHANGED lastRequestTime
       ELSE LoopSpacingPart(d, now)
    /\ UNCHANGED quotaResetTime

LoopTimerDue(d) ==
    /\ now >= queue.loop[d].wakeAt
    /\ \A e \in Tasks : LoopWaiting(e) => queue.loop[e].wakeAt >= queue.loop[d].wakeAt

\* the timer of line 209 fires: lines 210-218
LoopQuotaWake(d) ==
    /\ queue.loop[d].pc = "waitQuota"
    /\ LoopTimerDue(d)
    /\ quotaResetTime' = 0
    /\ LoopSpacingPart(d, queue.loop[d].nowL)

\* the timer of line 216 fires: line 218
LoopSpacingWake(d) ==
    /\ queue.loop[d].pc = "waitSpacing"
    /\ LoopTimerDue(d)
    /\ LoopGrant(d)
    /\ UNCHANGED quotaResetTime

LoopWakes == {queue.loop[d].wakeAt : d \in {e \in Tasks : LoopWaiting(e)}}

\* the clock reaches the earliest pending timer of a drain
JumpToLoopTimer ==
    /\ LoopWakes # {}
    /\ LET first == CHOOSE w \in LoopWakes : \A v \in LoopWakes : w <= v
       IN  /\ first > now
           /\ now' = first
    /\ UNCHANGED <<ticks, lastRequestTime, quotaResetTime, queue>>

TaskOutcomes == {"resolved", "rejected"}

\* the service when the first queueRequest arrives: fresh, or after a
\* sendMessage call that has just ended in a quota error (lines 218, 489)
QueueInit ==
    /\ NormIdle
    /\ now = StartTime
    /\ db = "open"
    /\ initialized = TRUE
    /\ transactions = {}
    /\ schedules = {}
    /\ journalEntries = {}
    /\ chatMessages = {}
    /\ lastOp = NoOp
    /\ ticks = 0
    /\ quotaResetTime \in {0, StartTime + quotaCooldown}
    /\ lastRequestTime = IF quotaResetTime = 0 THEN 0 ELSE StartTime
    /\ quoteCache = NoCache
    /\ th = [t \in Threads |-> IdleThread]
    /\ call = [p \in Callers |-> NoCall]
    /\ obs = NoObs
    /\ AppIdle

QueueRest == UNCHANGED <<normVars, storeVars, now, ticks, quoteCache, th, call, obs, apiKey, turn, searchCache>>
QueueFrozen == UNCHANGED <<normVars, storeVars, quoteCache, th, call, obs, apiKey, turn, searchCache>>

NextQueue ==
    \/ Tick /\ UNCHANGED <<lastRequestTime, quotaResetTime, queue>> /\ QueueFrozen
    \/ JumpToLoopTimer /\ QueueFrozen
    \/ QueueRequest /\ QueueRest
    \/ \E d \in Tasks, outcome \in TaskOutcomes : TaskSettles(d, outcome) /\ QueueRest
    \/ \E d \in Tasks : LoopEnterWait(d) /\ QueueRest
    \/ \E d \in Tasks : LoopQuotaWake(d) /\ QueueRest
    \/ \E d \in Tasks : LoopSpacingWake(d) /\ QueueRest

SpecQueue == QueueInit /\ [][NextQueue]_vars

\* the steps the runtime takes by itself: tasks settle, continuations run,
\* timers fire
QueueProgress ==
    \/ JumpToLoopTimer /\ QueueFrozen
    \/ \E d \in Tasks, outcome \in TaskOutcomes : TaskSettles(d, outcome) /\ QueueRest
    \/ \E d \in Tasks : LoopEnterWait(d) /\ QueueRest
    \/ \E d \in Tasks : LoopQuotaWake(d) /\ QueueRest
    \/ \E d \in Tasks : LoopSpacingWake(d) /\ QueueRest

\* SpecQueue under an event loop that keeps running and tasks that settle
SpecQueueLive == SpecQueue /\ WF_vars(QueueProgress)

\* ---- C1
StartsWithUser(h) == h = <<>> \/ h[1].role = "user"
Alternates(h) == \A i \in 1..(Len(h) - 1) : h[i].role # h[i + 1].role
WellFormed(h) == StartsWithUser(h) /\ Alternates(h)

\* C1: for every input history over {user, model}, the history handed to the
\* model is empty or starts with a user turn and strictly alternates; every
\* input, malformed or not, is normalised (the step is enabled for all of them).
C1_NormalizedHistoryWellFormed ==
    /\ normPc = "chatStarted" => WellFormed(validHistory)
    /\ normPc = "start" => ENABLED StartChat

\* a malformed history (leading model turn, repeated roles) repaired to a
\* non-empty well-formed one
C1_Witness ==
    /\ normPc = "chatStarted"
    /\ ~WellFormed(conversationHistory)
    /\ Len(conversationHistory) = MaxHistoryLen
    /\ Len(validHistory) >= 2

\* ---- C2
\* C2: every two consecutive outbound requests to the remote model are at
\* least minRequestInterval apart, however the sendMessage calls overlap.
C2_MinSpacing ==
    obs.closest >= minRequestInterval

\* ---- C3
HasIssued(p) == th[Main(p)].pc \in {"request", "handlers", "done"}

\* C3: while an earlier sendMessage call is still waiting for its permit, no
\* later sendMessage call has issued its first request.
C3_FifoOrder ==
    \A p \in Callers, q \in Callers :
        (/\ call[p].op = "sendMessage" /\ call[q].op = "sendMessage"
         /\ call[p].seq < call[q].seq
         /\ Waiting(Main(p))) => ~HasIssued(q)

\* ---- C4
Finished(p) == call[p].op = "sendMessage" /\ th[Main(p)].pc = "done"

\* C4: a sendMessage call that received a quota signal returns the
\* please-wait message, and the first waitForRateLimit started after the
\* signal does not return before the deadline the signal installed.
C4_CooldownHonoured ==
    /\ \A p \in Callers :
          (Finished(p) /\ IsQuotaError(call[p].outcome.error)) =>
             call[p].outcome.kind = "quotaWait" /\ ~call[p].outcome.threw
    /\ obs.signal.doneAt # 0 => obs.signal.doneAt >= obs.signal.deadline

\* ---- C5
\* C5: every sendMessage call that ends, ends by resolving with a message for
\* the user and an action list, never by throwing, whichever request of the
\* call failed and whatever the failure was.
C5_SendMessageNeverThrows ==
    \A p \in Callers :
        Finished(p) =>
            /\ ~call[p].outcome.threw
            /\ call[p].outcome.text # ""
            /\ call[p].outcome.kind \in {"reply", "quotaWait", "apiKey", "generic"}
            /\ call[p].outcome.error # NoError => call[p].outcome.kind # "reply"

\* the follow-up request of a tool round failed with an unclassified error,
\* after a handler had written to the store, and the call resolved
C5_Witness ==
    \E p \in Callers :
        /\ Finished(p)
        /\ call[p].round = 1
        /\ call[p].wrote # {}
        /\ call[p].outcome.error \in ApiErrors
        /\ call[p].outcome.kind = "generic"
        /\ ~call[p].outcome.threw

\* ---- C6
QuotaSignal(e) == e.markers \cap {"429", "quota", "RESOURCE_EXHAUSTED"} # {}
AuthSignal(e) == e.markers \cap {"PERMISSION_DENIED", "UNAUTHENTICATED"} # {}

\* C6: a failure carrying a quota signal sets the cooldown deadline and yields
\* the please-wait message; one carrying an authentication or permission
\* signal yields the configuration-error message and sets no cooldown; any
\* other yields the generic message with the first 100 characters of the
\* error text and sets no cooldown.
C6_ClassifiesFailure ==
    [][\A p \in Callers, e \in ApiErrors :
         RespondError(p, e) =>
            /\ QuotaSignal(e) =>
                  /\ call'[p].outcome.kind = "quotaWait"
                  /\ quotaResetTime' = now + quotaCooldown
            /\ AuthSignal(e) =>
                  /\ call'[p].outcome.kind = "apiKey"
                  /\ quotaResetTime' = quotaResetTime
            /\ (~QuotaSignal(e) /\ ~AuthSignal(e)) =>
                  /\ call'[p].outcome.kind = "generic"
                  /\ call'[p].outcome.chars = Min(e.length, 100)
                  /\ quotaResetTime' = quotaResetTime
      ]_vars

\* ---- C7
OneLogTransaction(p) ==
    /\ Len(call[p].asked) = 1
    /\ call[p].asked[1].name = "logTransaction"

\* C7: a sendMessage call in which the model asked for exactly one
\* logTransaction, whose store write succeeded, has added exactly one
\* transaction with the asked amount, type, category and description, and
\* returns an action log of exactly one action, of type transaction.
C7_OneTransactionOneAction ==
    \A p \in Callers :
        (Finished(p) /\ OneLogTransaction(p) /\ call[p].wrote # {}) =>
            LET args == call[p].asked[1].args IN
            /\ Cardinality(call[p].wrote) = 1
            /\ \A w \in call[p].wrote :
                  \E r \in transactions :
                     /\ r.id = w.id
                     /\ r.amount = args.amount /\ r.type = args.type
                     /\ r.category = args.category /\ r.description = args.description
            /\ Len(call[p].outcome.actions) = 1
            /\ call[p].outcome.actions[1].type = "transaction"

\* ---- C8
QuoteFinished(p) ==
    /\ call[p].op = "generateDailyQuote"
    /\ th[Main(p)].pc = "done"
    /\ call[p].outcome.kind = "quote"

\* C8: a generateDailyQuote call made less than the TTL after a quote was
\* cached and returned returns that same text without a remote request; a
\* call made when the cached quote has expired issues a remote request.
C8_QuoteCachedForTtl ==
    \A p \in Callers :
        /\ QuoteFinished(p) =>
              \A r \in call[p].prior :
                 call[p].outcome.text = r.text /\ ~call[p].usedRemote
        /\ (call[p].op = "generateDailyQuote" /\ call[p].stale) => call[p].usedRemote

\* ---- C9
AddedChat(m) == AddChatMessage(m, "ok", "ok") /\ db = "open" /\ m.id \notin RowIds(chatMessages)
EvictedBy(m) == (chatMessages \cup {ChatRow(m)}) \ chatMessages'

OtherTablesKept(table) ==
    /\ table # "transactions" => transactions' = transactions
    /\ table # "schedules" => schedules' = schedules
    /\ table # "journalEntries" => journalEntries' = journalEntries
    /\ chatMessages' = chatMessages

RemovedExactly(before, after, id) ==
    /\ after \subseteq before
    /\ \A r \in before : r \in after <=> r.id # id
    /\ id \notin RowIds(before) => after = before

\* C10: on an open store and without an I/O fault, deleteTransaction,
\* deleteSchedule and deleteJournalEntry remove exactly the row of their table
\* with the given id, leave every other row of that table and every other
\* table unchanged, and return without an error; for an id no row has, nothing
\* changes.
C10_DeleteRemovesExactlyThatRecord ==
    [][\A id \in DeleteIds :
         /\ (db = "open" /\ DeleteTransaction(id, "ok")) =>
               /\ RemovedExactly(transactions, transactions', id)
               /\ OtherTablesKept("transactions")
               /\ ~lastOp'.threw
         /\ (db = "open" /\ DeleteSchedule(id, "ok")) =>
               /\ RemovedExactly(schedules, schedules', id)
               /\ OtherTablesKept("schedules")
               /\ ~lastOp'.threw
         /\ (db = "open" /\ DeleteJournalEntry(id, "ok")) =>
               /\ RemovedExactly(journalEntries, journalEntries', id)
               /\ OtherTablesKept("journalEntries")
               /\ ~lastOp'.threw
      ]_vars

\* a transaction was deleted by id while another transaction and a schedule
\* with the very same id stay in the store
C10_Witness ==
    /\ lastOp = Returned("deleteTransaction", StartTime)
    /\ StartTime \notin RowIds(transactions)
    /\ transactions # {}
    /\ StartTime \in RowIds(schedules)
    /\ journalEntries # {}

\* ---- C11
StoreCalled == lastOp.op \notin {"none", "init"}

\* C11: while init() has not completed successfully (not yet run, still in
\* progress, or failed), every store operation fails with 'Database not
\* initialized' and storage is neither read nor written.
C11_FailsBeforeInit ==
    ~initialized =>
        /\ StoreCalled => lastOp.threw /\ lastOp.error = "Database not initialized"
        /\ transactions = {} /\ schedules = {} /\ journalEntries = {}

\* ---- C12
\* C12: when the API credential is absent from the environment, every
\* sendMessage call that ends has returned the API-key guidance message.
C12_NoKeyGivesConfigMessage ==
    \A p \in Callers :
        (apiKey = "" /\ Finished(p)) => call[p].outcome.kind = "apiKey"

\* ---- C14
\* C14: every outbound request, follow-up requests included, comes right
\* after a permit acquisition of its own: waitForRateLimit ends by setting
\* lastRequestTime to the current instant, so the latest request was issued
\* at the instant lastRequestTime holds.
C14_PermitBeforeEveryRequest ==
    obs.lastIssueAt # 0 => lastRequestTime = obs.lastIssueAt

\* ---- C18
MutatingCalls(p) == {i \in 1..Len(call[p].asked) : call[p].asked[i].name \in DbTools}

\* C18: the action log a sendMessage call returns has exactly one entry for
\* each mutating tool call of the call whose store write succeeded, and no
\* other entry.
C18_ActionLogReportsEveryWrite ==
    \A p \in Callers :
        Finished(p) =>
            /\ Len(call[p].outcome.actions) = Cardinality(call[p].wrote)
            /\ \A i \in 1..Len(call[p].outcome.actions) :
                  \E j \in MutatingCalls(p) :
                     call[p].outcome.actions[i].data = call[p].asked[j].args

C16_HandlerFaultsStayInTheRound ==
    /\ [][\A t \in Threads :
            /\ (StartHandler(t) /\ th[t].tool.name \notin KnownTools) =>
                  /\ th'[t].result = [status |-> "ok", text |-> "Unknown function"]
                  /\ call'[t[1]].actions = call[t[1]].actions
                  /\ th'[Main(t[1])].pc = "handlers"
            /\ \A io \in IoOutcomes :
                  (HandlerDb(t, io) /\ lastOp'.threw) =>
                     /\ th'[t].result.status = "error"
                     /\ call'[t[1]].actions = call[t[1]].actions
                     /\ th'[Main(t[1])].pc = "handlers"
         ]_vars
    /\ [](\A p \in Callers :
            /\ HandlersDone(p) => ENABLED FollowUp(p)
            /\ call[p].sent # <<>> =>
                  /\ Len(call[p].sent) = Len(call[p].calls)
                  /\ \A i \in 1..Len(call[p].sent) :
                        call[p].calls[i].name \notin KnownTools =>
                           call[p].sent[i].response.text = "Unknown function")

\* a round of two calls in which the first handler threw and the second wrote
\* its record: both results went back to the model, one action was logged
C16_Witness ==
    \E p \in Callers :
        /\ th[Main(p)].pc = "request"
        /\ Len(call[p].sent) = 2
        /\ call[p].sent[1].response.status = "error"
        /\ call[p].sent[2].response.status = "ok"
        /\ Len(call[p].actions) = 1

\* ---- C17
\* C17: the follow-up request of a round carries exactly one result per
\* requested call, the i-th result under the name of the i-th call, in
\* whatever order the handlers settled.
C17_ResultsInRequestOrder ==
    \A p \in Callers :
        call[p].sent # <<>> =>
            /\ Len(call[p].sent) = Len(call[p].calls)
            /\ \A i \in 1..Len(call[p].sent) :
                  call[p].sent[i].name = call[p].calls[i].name

\* the second handler of a round settled before the first, and the results
\* went back in the order of the calls
C17_Witness ==
    \E p \in Callers :
        /\ call[p].completed = <<2, 1>>
        /\ Len(call[p].sent) = 2
        /\ call[p].calls[1].name # call[p].calls[2].name

\* ---- C13
HasChatRow(id, isUser) == \E r \in chatMessages : r.id = id /\ r.isUser = isUser

\* C13: in every chat turn the orchestrator is called only once the user's
\* message is in the store; whenever sendMessage returns, the write of the
\* assistant's message follows; and a turn that completed has left both
\* records in the store.
C13_TurnPersistsBothMessages ==
    /\ [][/\ CallSendMessage(1) => HasChatRow(turn.userId, TRUE)
          /\ Return(1) => /\ lastOp'.op = "addChatMessage"
                          /\ lastOp'.id = now + 1
                          /\ ~lastOp'.threw => HasChatRow(now + 1, FALSE)'
         ]_vars
    /\ [](turn.ended = "completed" =>
            /\ HasChatRow(turn.userId, TRUE)
            /\ HasChatRow(turn.aiId, FALSE))

\* a turn completed on a store that was full: the retention deleted rows at
\* both writes, and the two messages of the turn are there
C13_Witness ==
    /\ turn.ended = "completed"
    /\ Cardinality(chatMessages) = ChatLimit
    /\ HasChatRow(turn.userId, TRUE)
    /\ HasChatRow(turn.aiId, FALSE)
    /\ ~HasChatRow(1, TRUE)

\* ---- C19
RECURSIVE Upto(_)
Upto(n) == IF n = 0 THEN <<>> ELSE Append(Upto(n - 1), n)

\* C19: however the queueRequest calls interleave with the drain, at most one
\* processQueue loop is active, at most one task is running, and the tasks
\* started so far are the first ones enqueued, in the order of enqueueing,
\* the others waiting in the queue in that order.
C19_SingleDrainInOrder ==
    /\ Cardinality(ActiveLoops) <= 1
    /\ Cardinality(queue.running) <= 1
    /\ queue.started \o queue.requestQueue = Upto(queue.enqueued)
    /\ queue.isProcessingQueue <=> ActiveLoops # {}

\* two tasks were enqueued while the drain was busy with the first; the
\* second is running now and the third waits
C19_Witness ==
    /\ queue.started = <<1, 2>>
    /\ queue.running = {2}
    /\ queue.requestQueue = <<3>>
    /\ queue.settled[1] # "pending"

\* ---- C20
Enqueued(k) == k <= queue.enqueued
Quiet == queue.requestQueue = <<>> /\ ~queue.isProcessingQueue

\* C20: every enqueued task, whether enqueued during a drain or behind a
\* task that failed, is eventually started and the promise of its caller
\* settled; a task's failure leaves the drain running; and with no task
\* pending the queue ends empty with isProcessingQueue false.
C20_EveryTaskServed ==
    /\ \A k \in Tasks :
          Enqueued(k) ~> (\E i \in 1..Len(queue.started) : queue.started[i] = k)
                          /\ queue.settled[k] # "pending"
    /\ [][\A d \in Tasks : TaskSettles(d, "rejected") =>
              /\ queue'.settled[queue.loop[d].task] = "rejected"
              /\ queue'.loop[d].pc = "settled"
              /\ queue'.isProcessingQueue]_vars
    /\ (queue.enqueued > 0) ~> [](Quiet /\ \A k \in Tasks : Enqueued(k) => queue.settled[k] # "pending")

\* the first task failed, the two behind it (one of them enqueued during the
\* drain) were served, and the drain has ended
C20_Witness ==
    /\ queue.settled = [k \in Tasks |-> IF k = 1 THEN "rejected" ELSE "resolved"]
    /\ queue.started = <<1, 2, 3>>
    /\ Quiet

\* ---- C29
\* chat.sendMessage(userMessage) after startChat({history: validHistory}): the
\* turns the model receives
SentToModel == Append(validHistory, [role |-> "user", text |-> "a"])

\* C29: the normalized history followed by the new user utterance strictly
\* alternates user/model (the normalized history never ends with a user turn).
C29_UtteranceFollowsModelTurn ==
    normPc = "chatStarted" => Alternates(SentToModel)

\* ---- C30
RECURSIVE IsSubsequence(_, _)
IsSubsequence(s, t) ==
    IF s = <<>> THEN TRUE
    ELSE IF t = <<>> THEN FALSE
    ELSE IF Head(s) = Head(t) THEN IsSubsequence(Tail(s), Tail(t))
    ELSE IsSubsequence(s, Tail(t))

\* C30: the normalized history is a subsequence of the input in the original
\* order; an input that starts with user and strictly alternates comes out
\* unchanged; normalizing the normalized history changes nothing.
C30_NormalizationIdempotent ==
    normPc = "chatStarted" =>
        /\ IsSubsequence(validHistory, conversationHistory)
        /\ WellFormed(conversationHistory) => validHistory = conversationHistory
        /\ NormalizeHistory(validHistory) = validHistory

\* a malformed history of full length that lost some turns but not all, and
\* whose normal form is a fixed point
C30_Witness ==
    /\ normPc = "chatStarted"
    /\ Len(conversationHistory) = MaxHistoryLen
    /\ conversationHistory[1].role = "model"
    /\ Len(validHistory) = 3
    /\ NormalizeHistory(validHistory) = validHistory

\* ---- C27
\* C27: while a cooldown deadline lies in the future, no step clears it or
\* moves it to an earlier instant.
C27_DeadlineNeverWeakened ==
    [][quotaResetTime > now => quotaResetTime' >= quotaResetTime]_vars

\* ---- C28
\* the places in the round's request at which the call behind an action stands
RequestedAt(p, a) == {k \in 1..Len(call[p].calls) : call[p].calls[k].args = a.data}

\* C28: the actions logged in a round stand in the action log in the order
\* in which the model requested their calls, in whatever order the handlers
\* completed.
C28_ActionsInRequestOrder ==
    \A p \in Callers :
        call[p].round <= 1 =>
            \A i \in 1..Len(call[p].actions), j \in 1..Len(call[p].actions) :
                i < j => \A ki \in RequestedAt(p, call[p].actions[i]),
                            kj \in RequestedAt(p, call[p].actions[j]) : ki < kj

\* ---- C23
\* a step of a store operation whose statement met an I/O fault
FaultyStep ==
    \/ \E t \in TransactionInputs : AddTransaction(t, "fail")
    \/ \E s \in ScheduleInputs, d \in ScheduleDates : AddSchedule(s, d, "fail")
    \/ \E e \in JournalInputs : AddJournalEntry(e, "fail")
    \/ \E id \in DeleteIds :
          DeleteTransaction(id, "fail") \/ DeleteSchedule(id, "fail") \/ DeleteJournalEntry(id, "fail")
    \/ GetTransactions("fail") \/ GetSchedules("fail")
    \/ GetJournalEntries("fail") \/ GetChatMessages("fail")

\* C23: every store operation, read or write, that meets a storage fault (the
\* store not opened, or an I/O failure of its statement) ends by throwing to
\* its caller.
C23_FaultsSurface ==
    [][FaultyStep => lastOp'.threw]_vars

\* ---- C24
\* the calendar day of an instant, and the records a period token selects
Day(d) == d \div DayMs
InPeriod(d, period) == period = "all" \/ (period = "today" /\ Day(d) = Day(now))

\* C24: the summary a getUserFinances call puts in its result is the summary
\* of the transactions inside the requested period, and the call logs no
\* action.
C24_SummaryOverRequestedPeriod ==
    [][\A t \in Threads :
          (HandlerRead(t, "ok") /\ th[t].tool.name = "getUserFinances") =>
              /\ th'[t].result.text =
                    FinanceSummary({r \in transactions : InPeriod(r.date, th[t].tool.args.period)})
              /\ call'[t[1]].actions = call[t[1]].actions
      ]_vars

\* ---- C25
\* C25: every transaction in the store has a positive amount and a kind that
\* is income or expense.
C25_TransactionsValid ==
    \A r \in transactions : r.amount > 0 /\ r.type \in {"income", "expense"}

\* ---- C26
\* C26: a create operation whose INSERT meets no I/O fault succeeds: no
\* create fails because its id is already taken, two creates of one kind
\* in one round included.
C26_CreateNeverClashes ==
    [][\A t \in Threads : HandlerDb(t, "ok") => ~lastOp'.threw]_vars

\* ---- C21
SearchDone(p) == call[p].op = "performWebSearch" /\ th[Main(p)].pc = "done"
FailureTexts == {FallbackQuote, SearchQuotaText, SearchFailedText}

\* C21: for the quote cache and the search cache alike, a call that finds a
\* fresh entry returns it without a permit and without a request; only a
\* successful response writes an entry; a failed request leaves both caches
\* as they were; and no cache ever holds, or serves, a fallback or error text.
C21_CacheWrittenOnSuccessOnly ==
    /\ [][/\ \A p \in Callers, q \in SearchQueries :
               (CallPerformWebSearch(p, q) /\ SearchHit(ToLowerCase(q))) =>
                   /\ th'[Main(p)].pc = "done"
                   /\ call'[p].outcome.text = searchCache[ToLowerCase(q)].text
                   /\ ~call'[p].usedRemote
                   /\ lastRequestTime' = lastRequestTime
                   /\ obs'.lastIssueAt = obs.lastIssueAt
          /\ \A p \in Callers :
               (CallGenerateDailyQuote(p) /\ QuoteHit) =>
                   /\ th'[Main(p)].pc = "done"
                   /\ call'[p].outcome.text = quoteCache.text
                   /\ ~call'[p].usedRemote
                   /\ lastRequestTime' = lastRequestTime
                   /\ obs'.lastIssueAt = obs.lastIssueAt
          /\ searchCache' # searchCache =>
               \E t \in Threads, text \in SearchTexts : SearchRespondText(t, text)
          /\ quoteCache' # quoteCache =>
               \E t \in Threads, q \in QuoteTexts : QuoteRespondText(t, q)
          /\ \A t \in Threads :
               ((\E e \in SearchErrors : SearchRespondError(t, e)) \/ QuoteRespondError(t)) =>
                   /\ searchCache' = searchCache
                   /\ quoteCache' = quoteCache
         ]_vars
    /\ [](/\ quoteCache.set => quoteCache.text \notin FailureTexts
          /\ \A k \in SearchKeys : searchCache[k].set => searchCache[k].text \notin FailureTexts
          /\ \A p \in Callers :
                (th[Main(p)].pc = "done" /\ call[p].op # "none" /\ ~call[p].usedRemote) =>
                    call[p].outcome.text \notin FailureTexts)

\* one search was answered from the cache while another, for a different
\* key, has failed and left no entry behind
C21_Witness ==
    \E p \in Callers, r \in Callers :
        /\ SearchDone(p) /\ ~call[p].usedRemote /\ call[p].outcome.kind = "search"
        /\ SearchDone(r) /\ call[r].outcome.kind = "searchFailed"
        /\ ~searchCache[ToLowerCase(th[Main(r)].tool.args.query)].set

\* ---- C22
\* C22: a performWebSearch call made while a successful search for the same
\* normalized query is less than the TTL old issues no remote request and
\* returns the text that search returned.
C22_SameKeySameText ==
    \A p \in Callers :
        (SearchDone(p) /\ call[p].prior # {}) =>
            /\ ~call[p].usedRemote
            /\ \A r \in call[p].prior : call[p].outcome.text = r.text

====
